---------------------------- MODULE Spec2Model ----------------------------
(***************************************************************************)
(* PodMonitoring scrape-configuration compiler                             *)
(* (pkg/operator/apis/monitoring/v1alpha1/types.go).                       *)
(*                                                                         *)
(* A Go string is a sequence of one-character strings, so that strings can *)
(* be concatenated, compared bytewise (sort.Strings) and rewritten         *)
(* character by character (sanitizeLabelName).  A nil pointer / nil slice  *)
(* is the empty sequence, a non-nil pointer a one-element sequence.        *)
(***************************************************************************)
EXTENDS Integers, Sequences, FiniteSets

VARIABLES
    pm,      \* the PodMonitoring resource the methods are called on
    given,   \* the resource as it was before the first call
    op,      \* the method that returned last ("" before the first call)
    ret,     \* what it returned: [res, err, calls, pm], with res the
             \* []*ScrapeConfig (nil for the Validate methods), err the error
             \* (NoError for nil), calls the number of endpontScrapeConfig
             \* calls it made and pm the receiver as it left it
    order,   \* the orders in which its endpontScrapeConfig calls happened to
             \* iterate over the MatchLabels map, one per endpoint
    first,   \* <<[ret, order]>> of the first ScrapeConfigs call on pm, <<>>
             \* before
    old      \* the prior version handed to the last ValidateUpdate, <<>> else

vars == <<pm, given, op, ret, order, first, old>>

-----------------------------------------------------------------------------
(* Bounds of the explored inputs. *)
MaxEndpoints == 2
MaxMappings == 2
MaxLabels == 2
MaxExprs == 2

-----------------------------------------------------------------------------
(* Strings. *)

\* The characters that occur in the explored inputs and in the literals of
\* the code, in ascending byte order.
AsciiOrder ==
    <<"$", "(", ")", "+", "-", ".", "/", "0", "1", "2", "3", "4", "5", "6",
      "7", "8", "9", ":", ";", "=", "A", "D", "E", "M", "N", "O", "P", "_",
      "a", "b", "c", "d", "e", "g", "i", "j", "k", "l", "m", "n", "o", "p",
      "r", "s", "t", "u", "w", "x", "y", "|">>

Chars == {AsciiOrder[i] : i \in DOMAIN AsciiOrder}

Ord == [c \in Chars |-> CHOOSE i \in DOMAIN AsciiOrder : AsciiOrder[i] = c]

DigitSeq == <<"0", "1", "2", "3", "4", "5", "6", "7", "8", "9">>
Digits == {"0", "1", "2", "3", "4", "5", "6", "7", "8", "9"}
Letters ==
    {"A", "D", "E", "M", "N", "O", "P",
     "a", "b", "c", "d", "e", "g", "i", "j", "k", "l", "m", "n", "o", "p",
     "r", "s", "t", "u", "w", "x", "y"}

DigitValue == [c \in Digits |-> (CHOOSE i \in 1..10 : DigitSeq[i] = c) - 1]

\* Bytewise lexicographic order of Go strings (the order of sort.Strings).
RECURSIVE StrLess(_, _)
StrLess(a, b) ==
    IF b = <<>> THEN FALSE
    ELSE IF a = <<>> THEN TRUE
    ELSE IF Head(a) # Head(b) THEN Ord[Head(a)] < Ord[Head(b)]
    ELSE StrLess(Tail(a), Tail(b))

\* strings.Join(values, sep)
RECURSIVE Join(_, _)
Join(values, sep) ==
    IF values = <<>> THEN <<>>
    ELSE IF Len(values) = 1 THEN values[1]
    ELSE values[1] \o sep \o Join(Tail(values), sep)

\* strconv.Itoa for n >= 0
RECURSIVE Itoa(_)
Itoa(n) ==
    IF n < 10 THEN <<DigitSeq[n + 1]>> ELSE Itoa(n \div 10) \o <<DigitSeq[(n % 10) + 1]>>

\* strconv.Atoi for a digit string; 0 when the string is no number
\* (IntOrString.IntValue drops the error).
RECURSIVE AtoiFrom(_, _)
AtoiFrom(s, acc) ==
    IF s = <<>> THEN acc
    ELSE IF Head(s) \notin Digits THEN 0
    ELSE AtoiFrom(Tail(s), 10 * acc + DigitValue[Head(s)])

Atoi(s) == IF s = <<>> THEN 0 ELSE AtoiFrom(s, 0)

\* The orders in which a map with the key set S can be iterated.
MapOrders(S) ==
    {f \in [1..Cardinality(S) -> S] : \A i, j \in DOMAIN f : i # j => f[i] # f[j]}

HasPrefix(s, p) == Len(s) >= Len(p) /\ SubSeq(s, 1, Len(p)) = p

-----------------------------------------------------------------------------
(* Literals of the code. *)

\* "__meta_kubernetes_namespace"
metaNamespace ==
    <<"_", "_", "m", "e", "t", "a", "_", "k", "u", "b", "e", "r", "n", "e", "t", "e", "s", "_", "n", "a", "m", "e", "s", "p", "a", "c", "e">>
\* "__meta_kubernetes_pod_label_"
metaPodLabel ==
    <<"_", "_", "m", "e", "t", "a", "_", "k", "u", "b", "e", "r", "n", "e", "t", "e", "s", "_", "p", "o", "d", "_", "l", "a", "b", "e", "l", "_">>
\* "__meta_kubernetes_pod_labelpresent_"
metaPodLabelPresent ==
    <<"_", "_", "m", "e", "t", "a", "_", "k", "u", "b", "e", "r", "n", "e", "t", "e", "s", "_", "p", "o", "d", "_", "l", "a", "b", "e", "l", "p", "r", "e", "s", "e", "n", "t", "_">>
\* "__meta_kubernetes_pod_container_port_name"
metaPortName ==
    <<"_", "_", "m", "e", "t", "a", "_", "k", "u", "b", "e", "r", "n", "e", "t", "e", "s", "_", "p", "o", "d", "_", "c", "o", "n", "t", "a", "i", "n", "e", "r", "_", "p", "o", "r", "t", "_", "n", "a", "m", "e">>
\* "__meta_kubernetes_pod_container_port_number"
metaPortNumber ==
    <<"_", "_", "m", "e", "t", "a", "_", "k", "u", "b", "e", "r", "n", "e", "t", "e", "s", "_", "p", "o", "d", "_", "c", "o", "n", "t", "a", "i", "n", "e", "r", "_", "p", "o", "r", "t", "_", "n", "u", "m", "b", "e", "r">>
\* "__meta_kubernetes_pod_name"
metaPodName ==
    <<"_", "_", "m", "e", "t", "a", "_", "k", "u", "b", "e", "r", "n", "e", "t", "e", "s", "_", "p", "o", "d", "_", "n", "a", "m", "e">>
\* "__meta_kubernetes_pod_ip"
metaPodIP ==
    <<"_", "_", "m", "e", "t", "a", "_", "k", "u", "b", "e", "r", "n", "e", "t", "e", "s", "_", "p", "o", "d", "_", "i", "p">>
\* "__address__"
addressLabel ==
    <<"_", "_", "a", "d", "d", "r", "e", "s", "s", "_", "_">>
\* "NODE_NAME"
EnvVarNodeName ==
    <<"N", "O", "D", "E", "_", "N", "A", "M", "E">>

\* The label names of the target schema (package export).
KeyProjectID == <<"p", "r", "o", "j", "e", "c", "t">>
KeyLocation == <<"l", "o", "c", "a", "t", "i", "o", "n">>
KeyCluster == <<"c", "l", "u", "s", "t", "e", "r">>
KeyNamespace == <<"n", "a", "m", "e", "s", "p", "a", "c", "e">>
KeyJob == <<"j", "o", "b">>
KeyInstance == <<"i", "n", "s", "t", "a", "n", "c", "e">>

\* The messages of the errors the code returns, under the names the
\* design gives the error kinds.
NoEndpoints == "at least one endpoint is required"
MissingPort == "port must be set for PodMonitoring"
InvalidPortName == "invalid port name"
ReservedLabelCollision == "invalid PodMonitoring target labels"
InvalidInterval == "invalid scrape interval"
InvalidTimeout == "invalid scrape timeout"
InvalidDuration == {InvalidInterval, InvalidTimeout}
TimeoutExceedsInterval == "scrape timeout must not be greater than scrape interval"

\* A nil error, an error of the method itself, and errors.Wrapf(err,
\* "invalid definition for endpoint with index %d", i).
NoError == [msg |-> "", index |-> 0 - 1]
PlainError(msg) == [msg |-> msg, index |-> 0 - 1]
WrapIndex(msg, i) == [msg |-> msg, index |-> i]

-----------------------------------------------------------------------------
(* Label names, regular expressions and durations. *)

\* invalidLabelCharRE = `[^a-zA-Z0-9_]`: the characters the pattern matches.
invalidLabelCharRE(c) == c \notin Letters \cup Digits \cup {"_"}

\* invalidLabelCharRE.ReplaceAllString(name, "_")
sanitizeLabelName(name) ==
    [i \in 1..Len(name) |-> IF invalidLabelCharRE(name[i]) THEN "_" ELSE name[i]]

\* Whether regexp.Compile accepts s, for the syntax the explored strings
\* can use: groups must be balanced and a repetition needs an operand.
RECURSIVE RegexpCompiles(_, _, _)
RegexpCompiles(s, depth, operand) ==
    IF s = <<>> THEN depth = 0
    ELSE IF Head(s) = "(" THEN RegexpCompiles(Tail(s), depth + 1, FALSE)
    ELSE IF Head(s) = ")" THEN depth > 0 /\ RegexpCompiles(Tail(s), depth - 1, TRUE)
    ELSE IF Head(s) = "+" THEN operand /\ RegexpCompiles(Tail(s), depth, TRUE)
    ELSE IF Head(s) = "|" THEN RegexpCompiles(Tail(s), depth, FALSE)
    ELSE RegexpCompiles(Tail(s), depth, TRUE)

\* relabel.NewRegexp(s): the anchored pattern "^(?:" + s + ")$", kept by its
\* source s, or an error.
NewRegexp(s) ==
    IF RegexpCompiles(s, 0, FALSE) THEN [re |-> <<s>>, ok |-> TRUE]
    ELSE [re |-> <<>>, ok |-> FALSE]

\* relabel.MustNewRegexp(s), for an s that compiles.
MustNewRegexp(s) == NewRegexp(s).re

\* The position after the digits that start at position i of s.
RECURSIVE DigitsEnd(_, _)
DigitsEnd(s, i) ==
    IF i <= Len(s) /\ s[i] \in Digits THEN DigitsEnd(s, i + 1) ELSE i

\* The duration, in milliseconds, of the units of s from position i on:
\* <number><unit> groups with the units m, s, ms, each at most once and in
\* this order; -1 when s is no such string.
RECURSIVE DurationFrom(_, _, _, _)
\* The group whose digits are s[i..j-1] and whose unit starts at j.
DurationGroup(s, i, j, rank, acc) ==
    LET isMs == j + 1 <= Len(s) /\ s[j] = "m" /\ s[j + 1] = "s"
        isM == j <= Len(s) /\ s[j] = "m" /\ ~isMs
        isS == j <= Len(s) /\ s[j] = "s"
        r == IF isM THEN 1 ELSE IF isS THEN 2 ELSE IF isMs THEN 3 ELSE 0
        mult == IF isM THEN 60000 ELSE IF isS THEN 1000 ELSE 1
        next == IF isMs THEN j + 2 ELSE j + 1
    IN IF j = i \/ r = 0 \/ r <= rank THEN 0 - 1
       ELSE DurationFrom(s, next, r, acc + Atoi(SubSeq(s, i, j - 1)) * mult)

DurationFrom(s, i, rank, acc) ==
    IF i > Len(s) THEN acc ELSE DurationGroup(s, i, DigitsEnd(s, i), rank, acc)

DurationResult(d) == IF d < 0 THEN [ok |-> FALSE, d |-> 0] ELSE [ok |-> TRUE, d |-> d]

\* prommodel.ParseDuration(s): [ok, d], d in milliseconds.
ParseDuration(s) ==
    IF s = <<"0">> THEN [ok |-> TRUE, d |-> 0]
    ELSE IF s = <<>> THEN [ok |-> FALSE, d |-> 0]
    ELSE DurationResult(DurationFrom(s, 1, 0, 0))

-----------------------------------------------------------------------------
(* relabel.Config, intstr.IntOrString *)

Keep == "keep"
Drop == "drop"
Replace == "replace"

\* A relabel.Config literal; the fields a literal leaves out are zero.
RelabelConfig(action, sourceLabels, regex, replacement, targetLabel) ==
    [Action |-> action, SourceLabels |-> sourceLabels, Regex |-> regex,
     Replacement |-> replacement, TargetLabel |-> targetLabel]

\* metav1.LabelSelectorOperator
LabelSelectorOpIn == "In"
LabelSelectorOpNotIn == "NotIn"
LabelSelectorOpExists == "Exists"
LabelSelectorOpDoesNotExist == "DoesNotExist"

\* intstr.Type
IntType == "Int"
StringType == "String"

\* IntOrString.IntValue()
IntValue(port) == IF port.Type = StringType THEN Atoi(port.StrVal) ELSE port.IntVal

\* IntOrString.String(), the %s of a *IntOrString
PortString(port) ==
    IF port.Type = StringType THEN port.StrVal ELSE Itoa(IntValue(port))

-----------------------------------------------------------------------------
(* The compiler. *)

\* Literals of endpontScrapeConfig.
jobNamePrefix == <<"P", "o", "d", "M", "o", "n", "i", "t", "o", "r", "i", "n", "g", "/">>
nodeSelectorPrefix ==
    <<"s", "p", "e", "c", ".", "n", "o", "d", "e", "N", "a", "m", "e", "=", "$", "(">>
defaultMetricsPath == <<"/", "m", "e", "t", "r", "i", "c", "s">>
instanceMergeRegex == <<"(", ".", "+", ")", ";", "(", ".", "+", ")">>
instanceMergeReplacement == <<"$", "1", ":", "$", "2">>
portReplacementPrefix == <<"$", "1", ":">>
presentValue == <<"t", "r", "u", "e">>

\* isPrometheusTargetLabel(label)
isPrometheusTargetLabel(label) ==
    label \in {KeyProjectID, KeyLocation, KeyCluster, KeyNamespace, KeyJob, KeyInstance}

\* The loop of labelMappingRelabelConfigs from mapping i on; relabelCfgs are
\* the rules of the mappings before i.  m is the loop's copy of the
\* mapping, so the default is written to the copy and the slice keeps its
\* elements.  [cfgs, ok, mappings]: the rules, whether there was no error,
\* and the slice as the loop leaves it.
RECURSIVE labelMappingLoop(_, _, _, _)
\* Faulty variant: the rule of a mapping is put in front of the rules of the
\* mappings before it.
labelMappingLoopPrepend(mappings, prefix, i, relabelCfgs) ==
    IF i > Len(mappings) THEN [cfgs |-> relabelCfgs, ok |-> TRUE, mappings |-> mappings]
    ELSE IF isPrometheusTargetLabel(mappings[i].To) THEN
        [cfgs |-> <<>>, ok |-> FALSE, mappings |-> mappings]
    ELSE labelMappingLoop(mappings, prefix, i + 1,
             <<RelabelConfig(Replace, <<prefix \o sanitizeLabelName(mappings[i].From)>>,
                             <<>>, <<>>,
                             IF mappings[i].To = <<>> THEN mappings[i].From
                             ELSE mappings[i].To)>> \o relabelCfgs)

\* Faulty variant: m refers to the element of the slice, so the default is
\* written to the mapping of the resource.
labelMappingLoopByReference(mappings, prefix, i, relabelCfgs) ==
    IF i > Len(mappings) THEN [cfgs |-> relabelCfgs, ok |-> TRUE, mappings |-> mappings]
    ELSE IF isPrometheusTargetLabel(mappings[i].To) THEN
        [cfgs |-> <<>>, ok |-> FALSE, mappings |-> mappings]
    ELSE labelMappingLoop(
             [mappings EXCEPT ![i].To = IF @ = <<>> THEN mappings[i].From ELSE @],
             prefix, i + 1,
             Append(relabelCfgs,
                    RelabelConfig(Replace, <<prefix \o sanitizeLabelName(mappings[i].From)>>,
                                  <<>>, <<>>,
                                  IF mappings[i].To = <<>> THEN mappings[i].From
                                  ELSE mappings[i].To)))

labelMappingLoop(mappings, prefix, i, relabelCfgs) ==
    IF i > Len(mappings) THEN [cfgs |-> relabelCfgs, ok |-> TRUE, mappings |-> mappings]
    ELSE
        LET m == mappings[i]
        IN IF isPrometheusTargetLabel(m.To) THEN
               [cfgs |-> <<>>, ok |-> FALSE, mappings |-> mappings]
           ELSE
               LET to == IF m.To = <<>> THEN m.From ELSE m.To
               IN labelMappingLoop(mappings, prefix, i + 1,
                      Append(relabelCfgs,
                             RelabelConfig(Replace, <<prefix \o sanitizeLabelName(m.From)>>,
                                           <<>>, <<>>, to)))

\* labelMappingRelabelConfigs(mappings, prefix)
labelMappingRelabelConfigs(mappings, prefix) ==
    labelMappingLoop(mappings, prefix, 1, <<>>)

\* sort.Strings(keys), as an insertion sort.
RECURSIVE InsertSorted(_, _)
InsertSorted(sorted, k) ==
    IF sorted = <<>> THEN <<k>>
    ELSE IF StrLess(k, Head(sorted)) THEN <<k>> \o sorted
    ELSE <<Head(sorted)>> \o InsertSorted(Tail(sorted), k)

RECURSIVE SortStrings(_)
SortStrings(keys) ==
    IF keys = <<>> THEN <<>>
    ELSE InsertSorted(SortStrings(SubSeq(keys, 1, Len(keys) - 1)), keys[Len(keys)])

\* Faulty variant: the keys are left in the order of the map iteration.
selectorKeysUnsorted(iter) == iter

\* Faulty variant: the keys are sorted in descending order.
selectorKeysDescending(iter) ==
    [i \in 1..Len(iter) |-> SortStrings(iter)[Len(iter) + 1 - i]]

\* The selector keys as endpontScrapeConfig orders them: collected in the
\* order iter in which the map happens to be iterated, then sorted.
selectorKeys(iter) == SortStrings(iter)

\* The rule filtering targets by the namespace of the PodMonitoring.
namespaceRelabelCfg(p) ==
    RelabelConfig(Keep, <<metaNamespace>>, MustNewRegexp(p.Namespace), <<>>, <<>>)

\* The loop over the sorted selector keys: one rule per key.
matchLabelsLoop(p, keys) ==
    [i \in 1..Len(keys) |->
        RelabelConfig(Keep, <<metaPodLabel \o sanitizeLabelName(keys[i])>>,
                      MustNewRegexp(p.Spec.Selector.MatchLabels[keys[i]]), <<>>, <<>>)]

\* The rules of the equal matchers of the selector.
matchLabelsRelabelCfgs(p, iter) == matchLabelsLoop(p, selectorKeys(iter))

\* Faulty variant: the rule of NotIn keeps the targets it should drop.
matchExpressionRelabelCfgsNotInKeeps(exp) ==
    IF exp.Operator \in {LabelSelectorOpIn, LabelSelectorOpNotIn} THEN
        <<RelabelConfig(Keep, <<metaPodLabel \o sanitizeLabelName(exp.Key)>>,
                        MustNewRegexp(Join(exp.Values, <<"|">>)), <<>>, <<>>)>>
    ELSE IF exp.Operator = LabelSelectorOpExists THEN
        <<RelabelConfig(Keep, <<metaPodLabelPresent \o sanitizeLabelName(exp.Key)>>,
                        MustNewRegexp(presentValue), <<>>, <<>>)>>
    ELSE IF exp.Operator = LabelSelectorOpDoesNotExist THEN
        <<RelabelConfig(Drop, <<metaPodLabelPresent \o sanitizeLabelName(exp.Key)>>,
                        MustNewRegexp(presentValue), <<>>, <<>>)>>
    ELSE <<>>

\* The switch on exp.Operator: the rules one expression appends.
matchExpressionRelabelCfgs(exp) ==
    IF exp.Operator = LabelSelectorOpIn THEN
        <<RelabelConfig(Keep, <<metaPodLabel \o sanitizeLabelName(exp.Key)>>,
                        MustNewRegexp(Join(exp.Values, <<"|">>)), <<>>, <<>>)>>
    ELSE IF exp.Operator = LabelSelectorOpNotIn THEN
        <<RelabelConfig(Drop, <<metaPodLabel \o sanitizeLabelName(exp.Key)>>,
                        MustNewRegexp(Join(exp.Values, <<"|">>)), <<>>, <<>>)>>
    ELSE IF exp.Operator = LabelSelectorOpExists THEN
        <<RelabelConfig(Keep, <<metaPodLabelPresent \o sanitizeLabelName(exp.Key)>>,
                        MustNewRegexp(presentValue), <<>>, <<>>)>>
    ELSE IF exp.Operator = LabelSelectorOpDoesNotExist THEN
        <<RelabelConfig(Drop, <<metaPodLabelPresent \o sanitizeLabelName(exp.Key)>>,
                        MustNewRegexp(presentValue), <<>>, <<>>)>>
    ELSE <<>>

\* The loop over the expression matchers of the selector.
RECURSIVE matchExpressionsRelabelCfgs(_)
matchExpressionsRelabelCfgs(exps) ==
    IF exps = <<>> THEN <<>>
    ELSE matchExpressionRelabelCfgs(Head(exps)) \o matchExpressionsRelabelCfgs(Tail(exps))

\* Faulty variant: the job label is set before the namespace label.
identityRelabelCfgsJobFirst(p) ==
    <<RelabelConfig(Replace, <<>>, <<>>, p.Name, KeyJob),
      RelabelConfig(Replace, <<metaNamespace>>, <<>>, <<>>, KeyNamespace)>>

\* The rules setting a clean namespace and job label.
identityRelabelCfgs(p) ==
    <<RelabelConfig(Replace, <<metaNamespace>>, <<>>, <<>>, KeyNamespace),
      RelabelConfig(Replace, <<>>, <<>>, p.Name, KeyJob)>>

\* The rules of a port name, portValue being NewRegexp of the name.
portNameRelabelCfgs(portValue) ==
    IF ~portValue.ok THEN [cfgs |-> <<>>, err |-> InvalidPortName]
    ELSE [cfgs |->
             <<RelabelConfig(Keep, <<metaPortName>>, portValue.re, <<>>, <<>>),
               RelabelConfig(Replace, <<metaPodName, metaPortName>>,
                             MustNewRegexp(instanceMergeRegex),
                             instanceMergeReplacement, KeyInstance)>>,
          err |-> ""]

\* Faulty variant: the targets are filtered by the declared port number
\* instead of getting their address overridden.
portNumberRelabelCfgsFilter(ep) ==
    [cfgs |->
        <<RelabelConfig(Keep, <<metaPortNumber>>, MustNewRegexp(Itoa(ep.Port.IntVal)),
                        <<>>, <<>>),
          RelabelConfig(Replace, <<metaPodName>>, <<>>,
                        portReplacementPrefix \o Itoa(ep.Port.IntVal), KeyInstance)>>,
     err |-> ""]

\* The rules of a port number.
portNumberRelabelCfgs(ep) ==
    [cfgs |->
        <<RelabelConfig(Replace, <<metaPodName>>, <<>>,
                        portReplacementPrefix \o Itoa(ep.Port.IntVal), KeyInstance),
          RelabelConfig(Replace, <<metaPodIP>>, <<>>,
                        portReplacementPrefix \o Itoa(ep.Port.IntVal), addressLabel)>>,
     err |-> ""]

\* Faulty variant: the port number is looked at before the port name.
portRelabelCfgsNumberFirst(ep) ==
    IF ep.Port.IntVal # 0 THEN portNumberRelabelCfgs(ep)
    ELSE IF ep.Port.StrVal # <<>> THEN portNameRelabelCfgs(NewRegexp(ep.Port.StrVal))
    ELSE [cfgs |-> <<>>, err |-> MissingPort]

\* Faulty variant: a port with both a name and a number is rejected.
portRelabelCfgsExactlyOne(ep) ==
    IF ep.Port.StrVal # <<>> /\ ep.Port.IntVal # 0 THEN [cfgs |-> <<>>, err |-> MissingPort]
    ELSE IF ep.Port.StrVal # <<>> THEN portNameRelabelCfgs(NewRegexp(ep.Port.StrVal))
    ELSE IF ep.Port.IntVal # 0 THEN portNumberRelabelCfgs(ep)
    ELSE [cfgs |-> <<>>, err |-> MissingPort]

\* The rules of the configured port: [cfgs, err], err "" for success.
portRelabelCfgs(ep) ==
    IF ep.Port.StrVal # <<>> THEN portNameRelabelCfgs(NewRegexp(ep.Port.StrVal))
    ELSE IF ep.Port.IntVal # 0 THEN portNumberRelabelCfgs(ep)
    ELSE [cfgs |-> <<>>, err |-> MissingPort]

\* The interval and timeout of the endpoint: [interval, timeout, err].
\* Faulty variant: the timeout is not compared with the interval.
checkDurationsNoBound(ep, interval, timeout) ==
    IF ~interval.ok THEN [interval |-> 0, timeout |-> 0, err |-> InvalidInterval]
    ELSE IF ep.Timeout = <<>> THEN
        [interval |-> interval.d, timeout |-> interval.d, err |-> ""]
    ELSE IF ~timeout.ok THEN [interval |-> 0, timeout |-> 0, err |-> InvalidTimeout]
    ELSE [interval |-> interval.d, timeout |-> timeout.d, err |-> ""]

\* The checks on the parsed interval and timeout of the endpoint.
checkDurations(ep, interval, timeout) ==
    IF ~interval.ok THEN [interval |-> 0, timeout |-> 0, err |-> InvalidInterval]
    ELSE IF ep.Timeout = <<>> THEN
        [interval |-> interval.d, timeout |-> interval.d, err |-> ""]
    ELSE IF ~timeout.ok THEN [interval |-> 0, timeout |-> 0, err |-> InvalidTimeout]
    ELSE IF timeout.d > interval.d THEN
        [interval |-> 0, timeout |-> 0, err |-> TimeoutExceedsInterval]
    ELSE [interval |-> interval.d, timeout |-> timeout.d, err |-> ""]

scrapeDurations(ep) ==
    checkDurations(ep, ParseDuration(ep.Interval), ParseDuration(ep.Timeout))

\* Faulty variant: the port rules are appended before the namespace and job rules.
assembleRelabelCfgsPortFirst(p, iter, portCfgs, mappingCfgs) ==
    <<namespaceRelabelCfg(p)>>
        \o matchLabelsRelabelCfgs(p, iter)
        \o matchExpressionsRelabelCfgs(p.Spec.Selector.MatchExpressions)
        \o portCfgs
        \o identityRelabelCfgs(p)
        \o mappingCfgs

\* The rules of a scrape configuration, stage after stage.
assembleRelabelCfgs(p, iter, portCfgs, mappingCfgs) ==
    <<namespaceRelabelCfg(p)>>
        \o matchLabelsRelabelCfgs(p, iter)
        \o matchExpressionsRelabelCfgs(p.Spec.Selector.MatchExpressions)
        \o identityRelabelCfgs(p)
        \o portCfgs
        \o mappingCfgs

\* The resource whose FromPod slice holds the given mappings.
withFromPod(p, mappings) == [p EXCEPT !.Spec.TargetLabels.FromPod = mappings]

\* Faulty variant: the durations are checked before the port and the label
\* mappings.
endpointScrapeConfigOfDurationsFirst(p, ep, iter, port, pCfgs, durations) ==
    IF durations.err # "" THEN [cfg |-> <<>>, err |-> durations.err, pm |-> p]
    ELSE IF port.err # "" THEN [cfg |-> <<>>, err |-> port.err, pm |-> p]
    ELSE IF ~pCfgs.ok THEN
        [cfg |-> <<>>, err |-> ReservedLabelCollision,
         pm |-> withFromPod(p, pCfgs.mappings)]
    ELSE [cfg |->
             <<[JobName |-> jobNamePrefix \o p.Namespace \o <<"/">> \o p.Name
                              \o <<"/">> \o PortString(ep.Port),
                ServiceDiscoverySelector |->
                    nodeSelectorPrefix \o EnvVarNodeName \o <<")">>,
                MetricsPath |-> IF ep.Path # <<>> THEN ep.Path ELSE defaultMetricsPath,
                ScrapeInterval |-> durations.interval,
                ScrapeTimeout |-> durations.timeout,
                RelabelConfigs |-> assembleRelabelCfgs(p, iter, port.cfgs, pCfgs.cfgs)]>>,
          err |-> "",
          pm |-> withFromPod(p, pCfgs.mappings)]

\* The body of endpontScrapeConfig for the endpoint ep, given the outcomes of
\* its three fallible steps in the order the code takes them: the port
\* rules, the label mapping rules, the durations.
endpointScrapeConfigOf(p, ep, iter, port, pCfgs, durations) ==
    IF port.err # "" THEN [cfg |-> <<>>, err |-> port.err, pm |-> p]
    ELSE IF ~pCfgs.ok THEN
        [cfg |-> <<>>, err |-> ReservedLabelCollision,
         pm |-> withFromPod(p, pCfgs.mappings)]
    ELSE IF durations.err # "" THEN
        [cfg |-> <<>>, err |-> durations.err, pm |-> withFromPod(p, pCfgs.mappings)]
    ELSE [cfg |->
             <<[JobName |-> jobNamePrefix \o p.Namespace \o <<"/">> \o p.Name
                              \o <<"/">> \o PortString(ep.Port),
                ServiceDiscoverySelector |->
                    nodeSelectorPrefix \o EnvVarNodeName \o <<")">>,
                MetricsPath |-> IF ep.Path # <<>> THEN ep.Path ELSE defaultMetricsPath,
                ScrapeInterval |-> durations.interval,
                ScrapeTimeout |-> durations.timeout,
                RelabelConfigs |-> assembleRelabelCfgs(p, iter, port.cfgs, pCfgs.cfgs)]>>,
          err |-> "",
          pm |-> withFromPod(p, pCfgs.mappings)]

\* pm.endpontScrapeConfig(index): [cfg, err, pm], cfg <<>> and err the
\* message on failure, cfg <<ScrapeConfig>> and err "" on success, pm the
\* receiver as the call leaves it.  iter is the order in which this call
\* iterates over the MatchLabels map.
endpontScrapeConfig(p, index, iter) ==
    endpointScrapeConfigOf(p, p.Spec.Endpoints[index + 1], iter,
        portRelabelCfgs(p.Spec.Endpoints[index + 1]),
        labelMappingRelabelConfigs(p.Spec.TargetLabels.FromPod, metaPodLabel),
        scrapeDurations(p.Spec.Endpoints[index + 1]))

\* The loop of ScrapeConfigs from endpoint i on; iters[i + 1] is the map
\* iteration order of the i-th call.
RECURSIVE scrapeConfigsLoop(_, _, _, _)
\* Faulty variant: an endpoint that fails is skipped.
scrapeConfigsStepSkip(p, i, acc, iters, c) ==
    IF c.err # "" THEN scrapeConfigsLoop(c.pm, i + 1, acc, iters)
    ELSE scrapeConfigsLoop(c.pm, i + 1, acc \o c.cfg, iters)

\* Faulty variant: the configuration is put in front of the result.
scrapeConfigsStepPrepend(p, i, acc, iters, c) ==
    IF c.err # "" THEN
        [res |-> <<>>, err |-> WrapIndex(c.err, i), calls |-> i + 1, pm |-> c.pm]
    ELSE scrapeConfigsLoop(c.pm, i + 1, c.cfg \o acc, iters)

\* Faulty variant: the endpoints are counted from one in the error.
scrapeConfigsStepOneBased(p, i, acc, iters, c) ==
    IF c.err # "" THEN
        [res |-> <<>>, err |-> WrapIndex(c.err, i + 1), calls |-> i + 1, pm |-> c.pm]
    ELSE scrapeConfigsLoop(c.pm, i + 1, acc \o c.cfg, iters)

\* One iteration of the loop, c being what endpontScrapeConfig(i) returned.
scrapeConfigsStep(p, i, acc, iters, c) ==
    IF c.err # "" THEN
        [res |-> <<>>, err |-> WrapIndex(c.err, i), calls |-> i + 1, pm |-> c.pm]
    ELSE scrapeConfigsLoop(c.pm, i + 1, acc \o c.cfg, iters)

scrapeConfigsLoop(p, i, acc, iters) ==
    IF i >= Len(p.Spec.Endpoints) THEN
        [res |-> acc, err |-> NoError, calls |-> i, pm |-> p]
    ELSE scrapeConfigsStep(p, i, acc, iters, endpontScrapeConfig(p, i, iters[i + 1]))

\* pm.ScrapeConfigs(): [res, err, calls, pm], pm the receiver as the
\* method leaves it.
ScrapeConfigs(p, iters) == scrapeConfigsLoop(p, 0, <<>>, iters)

\* `_, err := pm.ScrapeConfigs(); return err`
errorOf(r) == [res |-> <<>>, err |-> r.err, calls |-> r.calls, pm |-> r.pm]

\* Faulty variant: the number of endpoints is not looked at.
ValidateCreateUnchecked(p, iters) == errorOf(ScrapeConfigs(p, iters))

\* pm.ValidateCreate()
ValidateCreate(p, iters) ==
    IF Len(p.Spec.Endpoints) = 0 THEN
        [res |-> <<>>, err |-> PlainError(NoEndpoints), calls |-> 0, pm |-> p]
    ELSE errorOf(ScrapeConfigs(p, iters))

\* Faulty variant: the prior version is validated instead of the new one.
ValidateUpdateOfOld(p, oldObj, iters) ==
    [ValidateCreate(oldObj,
         [i \in 1..Len(oldObj.Spec.Endpoints) |->
             CHOOSE f \in MapOrders(DOMAIN oldObj.Spec.Selector.MatchLabels) : TRUE])
     EXCEPT !.pm = p]

\* pm.ValidateUpdate(old): validity does not depend on state changes.
ValidateUpdate(p, oldObj, iters) == ValidateCreate(p, iters)

\* pm.ValidateDelete(): deletions are always valid.
ValidateDelete(p) == [res |-> <<>>, err |-> NoError, calls |-> 0, pm |-> p]

-----------------------------------------------------------------------------
(* The emitted Replace rules applied to the labels of a discovered target.  *)
(* A label set is a function from label names to values; a label with the   *)
(* empty value is an absent label.                                          *)

\* model.LabelName.IsValid: the name matches [a-zA-Z_][a-zA-Z0-9_]*
IsValidLabelName(name) ==
    /\ name # <<>>
    /\ name[1] \notin Digits
    /\ \A i \in DOMAIN name : ~invalidLabelCharRE(name[i])

\* labels.Get(name)
LabelValue(labels, name) == IF name \in DOMAIN labels THEN labels[name] ELSE <<>>

\* labels.Builder.Set(name, value) and Del(name)
SetLabel(labels, name, value) ==
    [n \in DOMAIN labels \cup {name} |-> IF n = name THEN value ELSE labels[n]]
DelLabel(labels, name) == [n \in DOMAIN labels \ {name} |-> labels[n]]

\* The values of the source labels of the rule, joined by the separator.
sourceValue(labels, cfg) ==
    Join([i \in DOMAIN cfg.SourceLabels |-> LabelValue(labels, cfg.SourceLabels[i])],
         <<";">>)

\* A Replace rule that leaves Regex and Replacement to their defaults
\* `(.*)` and `$1`, applied to labels: the target label gets val, the
\* joined source values; an empty val or an invalid target name deletes it.
replaceLabel(labels, cfg, val) ==
    IF ~IsValidLabelName(cfg.TargetLabel) \/ val = <<>>
    THEN DelLabel(labels, cfg.TargetLabel)
    ELSE SetLabel(labels, cfg.TargetLabel, val)

relabel(labels, cfg) == replaceLabel(labels, cfg, sourceValue(labels, cfg))

\* relabel.Process(labels, cfgs...): the rules applied in order.
RECURSIVE Process(_, _)
Process(labels, cfgs) ==
    IF cfgs = <<>> THEN labels ELSE Process(relabel(labels, Head(cfgs)), Tail(cfgs))

-----------------------------------------------------------------------------
(* The explored resources. *)

SeqsUpTo(S, n) == UNION {[1..k -> S] : k \in 0..n}

Port(type, intVal, strVal) == [Type |-> type, IntVal |-> intVal, StrVal |-> strVal]

ScrapeEndpoint(port, path, interval, timeout) ==
    [Port |-> port, Path |-> path, Interval |-> interval, Timeout |-> timeout]

LabelMapping(from, to) == [From |-> from, To |-> to]

LabelSelectorRequirement(key, operator, values) ==
    [Key |-> key, Operator |-> operator, Values |-> values]

PodMonitoring(namespace, name, matchLabels, matchExpressions, endpoints, fromPod) ==
    [Namespace |-> namespace, Name |-> name,
     Spec |-> [Selector |-> [MatchLabels |-> matchLabels,
                             MatchExpressions |-> matchExpressions],
               Endpoints |-> endpoints,
               TargetLabels |-> [FromPod |-> fromPod]]]

\* Strings of the explored resources.
NS1 == <<"n", "s", "1">>
NS2 == <<"n", "s", "2">>
APP == <<"a", "p", "p">>
DB == <<"d", "b">>
WEB == <<"w", "e", "b">>
D30S == <<"3", "0", "s">>
D45S == <<"4", "5", "s">>
D1M == <<"1", "m">>
D60S == <<"6", "0", "s">>

webPort == Port(StringType, 0, WEB)
numberPort == Port(IntType, 8080, <<>>)
bothPort == Port(StringType, 8080, WEB)
unsetPort == Port(IntType, 0, <<>>)
badNamePort == Port(StringType, 0, <<"(">>)
digitsNamePort == Port(StringType, 0, <<"8", "0", "8", "0">>)

EndpointChoices ==
    {ScrapeEndpoint(webPort, <<>>, D30S, <<>>),
     ScrapeEndpoint(numberPort, <<>>, D30S, <<>>),
     ScrapeEndpoint(bothPort, <<>>, D30S, <<>>),
     ScrapeEndpoint(unsetPort, <<>>, D30S, <<>>),
     ScrapeEndpoint(badNamePort, <<>>, D30S, <<>>),
     ScrapeEndpoint(webPort, <<>>, D30S, D45S),
     ScrapeEndpoint(webPort, <<"/", "m">>, D1M, D45S),
     ScrapeEndpoint(webPort, <<>>, D60S, D1M),
     ScrapeEndpoint(webPort, <<>>, <<>>, <<>>),
     ScrapeEndpoint(webPort, <<>>, D30S, <<"x">>),
     ScrapeEndpoint(unsetPort, <<>>, D30S, D45S),
     ScrapeEndpoint(digitsNamePort, <<>>, D30S, <<>>)}

MappingChoices ==
    {LabelMapping(<<"a", ".", "b">>, to) :
         to \in {<<>>, <<"t">>, KeyProjectID, KeyLocation, KeyCluster,
                 KeyNamespace, KeyJob, KeyInstance}}
    \cup {LabelMapping(KeyJob, <<>>), LabelMapping(<<"b">>, <<"t">>),
          LabelMapping(<<"t">>, <<>>)}

ExprChoices ==
    {LabelSelectorRequirement(<<"a", ".", "b">>, LabelSelectorOpIn, <<<<"x">>, <<"y">>>>),
     LabelSelectorRequirement(<<"a", ".", "b">>, LabelSelectorOpNotIn, <<<<"x">>, <<"y">>>>),
     LabelSelectorRequirement(<<"a">>, LabelSelectorOpIn, <<<<"x">>>>),
     LabelSelectorRequirement(<<"a">>, LabelSelectorOpExists, <<>>),
     LabelSelectorRequirement(<<"a">>, LabelSelectorOpDoesNotExist, <<>>),
     LabelSelectorRequirement(<<"a">>, "Gt", <<<<"1">>>>)}

LabelKeys == {<<"a">>, <<"b">>, <<"a", ".", "b">>, <<"a", "-", "b">>}
LabelValues == {<<"1">>, <<"2">>}

MatchLabelsChoices ==
    UNION {[S -> LabelValues] : S \in {T \in SUBSET LabelKeys : Cardinality(T) <= MaxLabels}}

defaultMatchLabels == [k \in {APP} |-> <<"x">>]
defaultEndpoints == <<ScrapeEndpoint(webPort, <<>>, D30S, <<>>)>>

\* Resources that differ from the default in one part, and resources that
\* combine a few values of every part.
EndpointTargets ==
    {PodMonitoring(NS1, APP, defaultMatchLabels, <<>>, eps, <<>>) :
         eps \in SeqsUpTo(EndpointChoices, MaxEndpoints)}

MappingTargets ==
    {PodMonitoring(NS1, APP, defaultMatchLabels, <<>>, defaultEndpoints, ms) :
         ms \in SeqsUpTo(MappingChoices, MaxMappings)}

ExprTargets ==
    {PodMonitoring(NS1, APP, defaultMatchLabels, exps, defaultEndpoints, <<>>) :
         exps \in SeqsUpTo(ExprChoices, MaxExprs)}

LabelTargets ==
    {PodMonitoring(NS1, APP, ml, <<>>, defaultEndpoints, <<>>) : ml \in MatchLabelsChoices}

MixedTargets ==
    {PodMonitoring(ns, name, ml, exps, eps, ms) :
         ns \in {NS1, NS2}, name \in {APP, DB},
         ml \in {<<>>, [k \in {<<"a">>, <<"b">>} |-> IF k = <<"a">> THEN <<"1">> ELSE <<"2">>]},
         exps \in {<<>>, <<LabelSelectorRequirement(<<"a">>, LabelSelectorOpExists, <<>>)>>},
         eps \in {defaultEndpoints,
                  <<ScrapeEndpoint(numberPort, <<>>, D30S, <<>>),
                    ScrapeEndpoint(webPort, <<"/", "m">>, D1M, D45S)>>},
         ms \in {<<>>, <<LabelMapping(<<"a", ".", "b">>, <<"t">>)>>}}

\* Resources with several faults at once: in the port or the durations of
\* the endpoint, and in the label mappings.
FaultyTargets ==
    {PodMonitoring(NS1, APP, defaultMatchLabels, <<>>, <<ep>>, ms) :
         ep \in {ScrapeEndpoint(webPort, <<>>, D30S, D45S),
                 ScrapeEndpoint(numberPort, <<>>, <<>>, <<>>),
                 ScrapeEndpoint(webPort, <<>>, D30S, <<"x">>),
                 ScrapeEndpoint(badNamePort, <<>>, D30S, <<"x">>)},
         ms \in {<<>>, <<LabelMapping(<<"a", ".", "b">>, KeyJob)>>}}

Targets == EndpointTargets \cup MappingTargets \cup ExprTargets \cup LabelTargets
               \cup MixedTargets \cup FaultyTargets

\* The prior versions handed to ValidateUpdate.
OldVersions ==
    {PodMonitoring(NS1, APP, defaultMatchLabels, <<>>, defaultEndpoints, <<>>),
     PodMonitoring(NS2, DB, <<>>, <<>>, <<>>, <<>>)}

\* The map iteration orders of the calls of endpontScrapeConfig, one per
\* endpoint.
IterOrders(p) ==
    [1..Len(p.Spec.Endpoints) -> MapOrders(DOMAIN p.Spec.Selector.MatchLabels)]

-----------------------------------------------------------------------------
(* The methods, called in any order on a resource. *)

NoReturn(p) == [res |-> <<>>, err |-> NoError, calls |-> 0, pm |-> p]

Init ==
    /\ pm \in Targets
    /\ op = ""
    /\ given = pm
    /\ ret = NoReturn(pm)
    /\ order = <<>>
    /\ first = <<>>
    /\ old = <<>>

CallScrapeConfigs ==
    \E iters \in IterOrders(pm) :
        /\ op' = "ScrapeConfigs"
        /\ ret' = ScrapeConfigs(pm, iters)
        /\ order' = iters
        /\ first' = IF first = <<>> THEN <<[ret |-> ret', order |-> iters]>> ELSE first
        /\ old' = <<>>
        /\ pm' = ret'.pm
        /\ UNCHANGED given

CallValidateCreate ==
    \E iters \in IterOrders(pm) :
        /\ op' = "ValidateCreate"
        /\ ret' = ValidateCreate(pm, iters)
        /\ order' = iters
        /\ old' = <<>>
        /\ pm' = ret'.pm
        /\ UNCHANGED <<given, first>>

CallValidateUpdate ==
    \E oldObj \in OldVersions, iters \in IterOrders(pm) :
        /\ op' = "ValidateUpdate"
        /\ ret' = ValidateUpdate(pm, oldObj, iters)
        /\ order' = iters
        /\ old' = <<oldObj>>
        /\ pm' = ret'.pm
        /\ UNCHANGED <<given, first>>

CallValidateDelete ==
    /\ op' = "ValidateDelete"
    /\ ret' = ValidateDelete(pm)
    /\ order' = <<>>
    /\ old' = <<>>
    /\ pm' = ret'.pm
    /\ UNCHANGED <<given, first>>

Next ==
    \/ CallScrapeConfigs
    \/ CallValidateCreate
    \/ CallValidateUpdate
    \/ CallValidateDelete

Spec == Init /\ [][Next]_vars

-----------------------------------------------------------------------------
(* Vocabulary of the properties. *)

Endpoints == pm.Spec.Endpoints
MatchLabels == pm.Spec.Selector.MatchLabels
MatchExpressions == pm.Spec.Selector.MatchExpressions
FromPod == pm.Spec.TargetLabels.FromPod

\* ScrapeConfigs returned last, and returned without / with an error.
Compiled == op = "ScrapeConfigs"
Succeeded == Compiled /\ ret.err = NoError
Failed == Compiled /\ ret.err # NoError

\* One iteration order of the MatchLabels map.
SomeOrder == CHOOSE f \in MapOrders(DOMAIN MatchLabels) : TRUE

\* What compiling the endpoint with Go index i alone yields.
EndpointResult(i) == endpontScrapeConfig(pm, i, SomeOrder)
EndpointCompiles(i) == EndpointResult(i).err = ""
EndpointIndexes == 0..(Len(Endpoints) - 1)

NameSet(ep) == ep.Port.StrVal # <<>>
NumberSet(ep) == ep.Port.IntVal # 0

RecognizedOperators ==
    {LabelSelectorOpIn, LabelSelectorOpNotIn, LabelSelectorOpExists,
     LabelSelectorOpDoesNotExist}

NumLabels == Cardinality(DOMAIN MatchLabels)
NumExprRules ==
    Cardinality({i \in DOMAIN MatchExpressions :
                    MatchExpressions[i].Operator \in RecognizedOperators})

ReservedLabels ==
    {KeyProjectID, KeyLocation, KeyCluster, KeyNamespace, KeyJob, KeyInstance}

\* The target name a mapping resolves to.
ResolvedTo(m) == IF m.To = <<>> THEN m.From ELSE m.To

\* The shapes of the rules of the six stages.
IsNamespaceKeep(r) ==
    r = RelabelConfig(Keep, <<metaNamespace>>, <<pm.Namespace>>, <<>>, <<>>)
IsLabelKeep(r) ==
    /\ r.Action = Keep /\ Len(r.SourceLabels) = 1
    /\ HasPrefix(r.SourceLabels[1], metaPodLabel)
    /\ r.TargetLabel = <<>>
IsExprRule(r) ==
    /\ r.Action \in {Keep, Drop} /\ Len(r.SourceLabels) = 1
    /\ \/ HasPrefix(r.SourceLabels[1], metaPodLabel)
       \/ HasPrefix(r.SourceLabels[1], metaPodLabelPresent)
    /\ r.TargetLabel = <<>>
IsNamespaceReplace(r) ==
    r = RelabelConfig(Replace, <<metaNamespace>>, <<>>, <<>>, KeyNamespace)
IsJobReplace(r) == r = RelabelConfig(Replace, <<>>, <<>>, pm.Name, KeyJob)
IsNamedPortRule(r) ==
    \/ r.Action = Keep /\ r.SourceLabels = <<metaPortName>>
    \/ r.Action = Replace /\ r.SourceLabels = <<metaPodName, metaPortName>>
           /\ r.TargetLabel = KeyInstance
IsNumericPortRule(r) ==
    /\ r.Action = Replace
    /\ \/ r.SourceLabels = <<metaPodName>> /\ r.TargetLabel = KeyInstance
       \/ r.SourceLabels = <<metaPodIP>> /\ r.TargetLabel = addressLabel
IsPortRule(r) == IsNamedPortRule(r) \/ IsNumericPortRule(r)
IsMappingRule(r) ==
    /\ r.Action = Replace /\ Len(r.SourceLabels) = 1
    /\ HasPrefix(r.SourceLabels[1], metaPodLabel)

\* The shape the stage order gives the k-th rule of a JobSpec.
StageShape(r, k) ==
    IF k = 1 THEN IsNamespaceKeep(r)
    ELSE IF k <= 1 + NumLabels THEN IsLabelKeep(r)
    ELSE IF k <= 1 + NumLabels + NumExprRules THEN IsExprRule(r)
    ELSE IF k = 2 + NumLabels + NumExprRules THEN IsNamespaceReplace(r)
    ELSE IF k = 3 + NumLabels + NumExprRules THEN IsJobReplace(r)
    ELSE IF k <= 5 + NumLabels + NumExprRules THEN IsPortRule(r)
    ELSE IsMappingRule(r)

-----------------------------------------------------------------------------
(* C1 *)

\* C1 as stated: when some endpoint of the target fails to compile,
\* ScrapeConfigs still yields the JobSpec of every endpoint that compiles.
C1_PerEndpoint ==
    Compiled =>
        \A i \in EndpointIndexes :
            EndpointCompiles(i) =>
                \E k \in DOMAIN ret.res : ret.res[k] = EndpointResult(i).cfg[1]

\* C1 amended: compilation is all-or-nothing across a target. When some
\* endpoint fails to compile, ScrapeConfigs yields no JobSpec at all and
\* returns an error; the JobSpecs of the endpoints that compile are yielded
\* only when every endpoint of the target compiles.
C1_AllOrNothing ==
    Compiled =>
        IF \E i \in EndpointIndexes : ~EndpointCompiles(i)
        THEN ret.res = <<>> /\ ret.err # NoError
        ELSE /\ ret.err = NoError
             /\ \A i \in EndpointIndexes :
                    \E k \in DOMAIN ret.res : ret.res[k] = EndpointResult(i).cfg[1]

\* A target with a valid and an invalid endpoint was compiled: nothing came out.
C1_Witness ==
    /\ Compiled
    /\ \E i, j \in EndpointIndexes : EndpointCompiles(i) /\ ~EndpointCompiles(j)
    /\ ret.res = <<>>

-----------------------------------------------------------------------------
(* C2 *)

\* C2: in every JobSpec the rules are, in this order: the Keep on the
\* namespace, one Keep per exact-match label, one rule per recognized
\* selector expression, the Replace of namespace, the Replace of job by the
\* target's name, the two port rules, one Replace per label mapping; so no
\* rule of a later stage precedes a rule of an earlier one.
C2_StageOrder ==
    Compiled =>
        \A j \in DOMAIN ret.res :
            LET rules == ret.res[j].RelabelConfigs
            IN /\ Len(rules) = 1 + NumLabels + NumExprRules + 2 + 2 + Len(FromPod)
               /\ \A k \in DOMAIN rules : StageShape(rules[k], k)

\* A target with labels, expressions and mappings compiled.
C2_Witness ==
    /\ Succeeded /\ ret.res # <<>>
    /\ NumLabels >= 2 /\ NumExprRules >= 1 /\ Len(FromPod) >= 1

-----------------------------------------------------------------------------
(* C3 *)

\* C3 as stated: a mapping whose resolved target name is a reserved label
\* makes compilation fail with ReservedLabelCollision (the port of the
\* endpoint being resolvable, which the code checks first), and no JobSpec
\* holds a label-mapping rule whose target label is reserved.
C3_ReservedRejected ==
    /\ Failed /\ (NameSet(Endpoints[1]) \/ NumberSet(Endpoints[1]))
           /\ NewRegexp(Endpoints[1].Port.StrVal).ok
           /\ (\E i \in DOMAIN FromPod : ResolvedTo(FromPod[i]) \in ReservedLabels)
       => ret.err.msg = ReservedLabelCollision
    /\ Compiled =>
           \A j \in DOMAIN ret.res :
               \A k \in DOMAIN ret.res[j].RelabelConfigs :
                   IsMappingRule(ret.res[j].RelabelConfigs[k]) =>
                       ret.res[j].RelabelConfigs[k].TargetLabel \notin ReservedLabels

-----------------------------------------------------------------------------
(* C4 *)

\* The two port rules of the k-th JobSpec.
PortRules(k) ==
    SubSeq(ret.res[k].RelabelConfigs, 4 + NumLabels + NumExprRules,
           5 + NumLabels + NumExprRules)

\* C4: an endpoint with both a port name and a port number compiles to the
\* rules of the name (Keep on the container port name, then Replace of
\* instance from pod name and port name) and to none of the rules of the
\* number; an endpoint with neither makes compilation fail with MissingPort.
C4_PortPrecedence ==
    /\ Succeeded =>
           \A k \in DOMAIN Endpoints :
               NameSet(Endpoints[k]) /\ NumberSet(Endpoints[k]) =>
                   /\ PortRules(k) =
                          <<RelabelConfig(Keep, <<metaPortName>>,
                                          <<Endpoints[k].Port.StrVal>>, <<>>, <<>>),
                            RelabelConfig(Replace, <<metaPodName, metaPortName>>,
                                          <<instanceMergeRegex>>,
                                          instanceMergeReplacement, KeyInstance)>>
                   /\ \A n \in DOMAIN ret.res[k].RelabelConfigs :
                          ~IsNumericPortRule(ret.res[k].RelabelConfigs[n])
    /\ Compiled =>
           \A k \in DOMAIN Endpoints :
               ~NameSet(Endpoints[k]) /\ ~NumberSet(Endpoints[k]) =>
                   /\ ret.err # NoError
                   /\ ret.err.index <= k - 1
                   /\ ret.err.index = k - 1 => ret.err.msg = MissingPort

\* An endpoint with both port fields set compiled.
C4_Witness ==
    /\ Succeeded
    /\ \E k \in DOMAIN Endpoints : NameSet(Endpoints[k]) /\ NumberSet(Endpoints[k])

-----------------------------------------------------------------------------
(* C5 *)

\* C5 as stated: compilation succeeds only when exactly one of port name
\* and port number is set on every endpoint.
C5_ExactlyOne ==
    Succeeded =>
        \A k \in DOMAIN Endpoints : NameSet(Endpoints[k]) # NumberSet(Endpoints[k])

\* C5 amended: port resolution succeeds only when at least one of port name
\* and port number is set; it fails with MissingPort exactly when neither is
\* set (with both set the name is resolved).
C5_AtLeastOne ==
    /\ Succeeded =>
           \A k \in DOMAIN Endpoints : NameSet(Endpoints[k]) \/ NumberSet(Endpoints[k])
    /\ Failed =>
           (ret.err.msg = MissingPort
               <=> /\ ~NameSet(Endpoints[ret.err.index + 1])
                   /\ ~NumberSet(Endpoints[ret.err.index + 1]))

\* The second endpoint of a target was rejected for its missing port.
C5_Witness ==
    Failed /\ ret.err.msg = MissingPort /\ ret.err.index = 1

-----------------------------------------------------------------------------
(* C6 *)

\* Whether the timeout of the endpoint parses to more than its interval.
TimeoutExceeds(ep) ==
    /\ ParseDuration(ep.Interval).ok /\ ParseDuration(ep.Timeout).ok
    /\ ParseDuration(ep.Timeout).d > ParseDuration(ep.Interval).d

\* Whether the steps the code takes before the durations succeed.
PortAndMappingsResolve(ep) ==
    portRelabelCfgs(ep).err = "" /\ labelMappingRelabelConfigs(FromPod, metaPodLabel).ok

-----------------------------------------------------------------------------
(* C7 *)

\* C7: every compilation of a target returns what its first compilation
\* returned (the same JobSpec sequence, or the same error), whatever the
\* orders in which the two iterate over the MatchLabels map.
C7_Determinism ==
    Compiled /\ first # <<>> => ret = first[1].ret

\* The target was compiled twice, with different iteration orders.
C7_Witness ==
    /\ Compiled /\ first # <<>> /\ order # first[1].order
    /\ ret.res # <<>> /\ NumLabels >= 2

-----------------------------------------------------------------------------
(* C8 *)

\* The Keep rules of the exact-match labels of the j-th JobSpec.
LabelRules(j) == SubSeq(ret.res[j].RelabelConfigs, 2, 1 + NumLabels)

\* C8: the Keep rules of the exact-match labels are one per key, in
\* strictly ascending order of the keys as written, each on the sanitized
\* pod label of its key and matching the value of the key, whatever the
\* order of the map iteration.
C8_SortInvariant ==
    Compiled =>
        \A j \in DOMAIN ret.res :
            \E keys \in MapOrders(DOMAIN MatchLabels) :
                /\ \A a, b \in DOMAIN keys : a < b => StrLess(keys[a], keys[b])
                /\ LabelRules(j) =
                       [a \in DOMAIN keys |->
                           RelabelConfig(Keep,
                                         <<metaPodLabel \o sanitizeLabelName(keys[a])>>,
                                         <<MatchLabels[keys[a]]>>, <<>>, <<>>)]

\* A compilation iterated over the map in an order that is not ascending.
C8_Witness ==
    /\ Succeeded /\ ret.res # <<>> /\ NumLabels >= 2
    /\ \E a, b \in DOMAIN order[1] : a < b /\ StrLess(order[1][b], order[1][a])

-----------------------------------------------------------------------------
(* C9 *)

\* C9: when ScrapeConfigs succeeds it returns one JobSpec per endpoint, the
\* i-th being the one compiled from the i-th endpoint.
C9_OnePerEndpoint ==
    Succeeded =>
        /\ Len(ret.res) = Len(Endpoints)
        /\ \A k \in DOMAIN Endpoints : ret.res[k] = EndpointResult(k - 1).cfg[1]

\* Two endpoints that compile to different JobSpecs were compiled.
C9_Witness ==
    /\ Succeeded /\ Len(Endpoints) >= 2
    /\ EndpointResult(0).cfg # EndpointResult(1).cfg

-----------------------------------------------------------------------------
(* C10 *)

\* What ValidateCreate returns for the resource.
CreateError(p) ==
    ValidateCreate(p, [i \in 1..Len(p.Spec.Endpoints) |->
                          CHOOSE f \in MapOrders(DOMAIN p.Spec.Selector.MatchLabels) : TRUE]).err

\* C10: ValidateUpdate returns what ValidateCreate returns for the new
\* resource, whatever the prior version; ValidateDelete returns no error,
\* also for a resource ValidateCreate rejects, and compiles nothing.
C10_UpdatePure ==
    /\ op = "ValidateUpdate" => ret.err = CreateError(pm)
    /\ op = "ValidateCreate" => ret.err = CreateError(pm)
    /\ op = "ValidateDelete" => ret.err = NoError /\ ret.calls = 0

\* A valid resource was validated against an invalid prior version.
C10_Witness ==
    /\ op = "ValidateUpdate" /\ ret.err = NoError
    /\ CreateError(old[1]) # NoError

-----------------------------------------------------------------------------
(* C11 *)

Validated == op \in {"ValidateCreate", "ValidateUpdate"}

\* C11: ValidateCreate and ValidateUpdate reject a target without endpoints
\* with NoEndpoints, without compiling anything; a target they accept has
\* at least one endpoint and each of its endpoints compiles without error.
C11_NoEndpoints ==
    /\ Validated /\ Len(Endpoints) = 0 =>
           ret.err = PlainError(NoEndpoints) /\ ret.calls = 0
    /\ Validated /\ ret.err = NoError =>
           /\ Len(Endpoints) >= 1
           /\ \A i \in EndpointIndexes : EndpointCompiles(i)

\* The update of a target to one without endpoints was rejected.
C11_Witness ==
    /\ op = "ValidateUpdate" /\ Len(Endpoints) = 0
    /\ Len(old[1].Spec.Endpoints) >= 1
    /\ ret.err.msg = NoEndpoints

-----------------------------------------------------------------------------
(* C12 *)

\* The label-mapping rules of the j-th JobSpec.
MappingRules(j) ==
    SubSeq(ret.res[j].RelabelConfigs, 6 + NumLabels + NumExprRules,
           Len(ret.res[j].RelabelConfigs))

\* The pod labels of the discovered targets the rules are applied to.
PodLabelNames ==
    {metaPodLabel \o n : n \in {<<"a", "_", "b">>, <<"b">>, <<"t">>}}
DiscoveredPods == [PodLabelNames -> {<<>>, <<"1">>, <<"2">>}]

\* What the rule of the mapping m writes to its target label: the value of
\* the pod label `from`, nothing when the target is no label name.
Written(labels, m) ==
    IF IsValidLabelName(ResolvedTo(m))
    THEN LabelValue(labels, metaPodLabel \o sanitizeLabelName(m.From))
    ELSE <<>>

\* Whether the i-th mapping is the last one that resolves to its target.
LastFor(i) ==
    \A k \in DOMAIN FromPod : k > i => ResolvedTo(FromPod[k]) # ResolvedTo(FromPod[i])

\* C12: the label-mapping rules of a JobSpec are one Replace rule per
\* mapping, in declaration order, from the pod label of the sanitized `from`
\* to `to` (to `from` when `to` is absent); applied in order to the labels
\* of a pod, they leave every target label with what the last mapping that
\* resolves to it writes.
C12_MappingRules ==
    Compiled =>
        \A j \in DOMAIN ret.res :
            /\ Len(MappingRules(j)) = Len(FromPod)
            /\ \A i \in DOMAIN FromPod :
                   MappingRules(j)[i] =
                       RelabelConfig(Replace,
                                     <<metaPodLabel \o sanitizeLabelName(FromPod[i].From)>>,
                                     <<>>, <<>>, ResolvedTo(FromPod[i]))
            /\ \A labels \in DiscoveredPods :
                   \A i \in DOMAIN FromPod :
                       LastFor(i) =>
                           LabelValue(Process(labels, MappingRules(j)),
                                      ResolvedTo(FromPod[i]))
                               = Written(labels, FromPod[i])

\* Two mappings from different pod labels to the same target label, the
\* second with `to` absent, compiled.
C12_Witness ==
    /\ Succeeded /\ ret.res # <<>> /\ Len(FromPod) = 2
    /\ FromPod[1].From # FromPod[2].From
    /\ FromPod[2].To = <<>>
    /\ ResolvedTo(FromPod[1]) = ResolvedTo(FromPod[2])
    /\ \E labels \in DiscoveredPods :
           /\ Written(labels, FromPod[1]) # Written(labels, FromPod[2])
           /\ LabelValue(Process(labels, MappingRules(1)), ResolvedTo(FromPod[2]))
                  = Written(labels, FromPod[2])

-----------------------------------------------------------------------------
(* C13 *)

\* Whether the name has only characters of [A-Za-z0-9_].
IsSanitized(name) == \A i \in DOMAIN name : ~invalidLabelCharRE(name[i])

\* C13 as stated: in every emitted rule, the source labels (built from the
\* selector keys, the expression keys and the `from` of the mappings) and
\* the target label (the `to` of a mapping, or its `from` when `to` is
\* absent) have only characters of [A-Za-z0-9_].
C13_Sanitized ==
    Compiled =>
        \A j \in DOMAIN ret.res :
            \A k \in DOMAIN ret.res[j].RelabelConfigs :
                /\ \A n \in DOMAIN ret.res[j].RelabelConfigs[k].SourceLabels :
                       IsSanitized(ret.res[j].RelabelConfigs[k].SourceLabels[n])
                /\ IsSanitized(ret.res[j].RelabelConfigs[k].TargetLabel)

\* The part of C13 the code keeps: the source labels are sanitized.
C13_SourcesSanitized ==
    Compiled =>
        \A j \in DOMAIN ret.res :
            \A k \in DOMAIN ret.res[j].RelabelConfigs :
                \A n \in DOMAIN ret.res[j].RelabelConfigs[k].SourceLabels :
                    IsSanitized(ret.res[j].RelabelConfigs[k].SourceLabels[n])

-----------------------------------------------------------------------------
(* C14 *)

\* Targets with one endpoint each, compiled to compare job names with.
JobNamePeers ==
    {PodMonitoring(ns, name, <<>>, <<>>, <<ScrapeEndpoint(port, path, D30S, <<>>)>>, <<>>) :
         ns \in {NS1, NS2}, name \in {APP, DB},
         port \in {webPort, numberPort, digitsNamePort},
         path \in {<<>>, <<"/", "m">>}}

\* The port an endpoint resolves to: its name, or else its number.
ResolvedPort(ep) ==
    IF NameSet(ep) THEN <<"name", ep.Port.StrVal>> ELSE <<"number", Itoa(ep.Port.IntVal)>>

\* The job name of the only endpoint of the peer q.
PeerJobName(q) == endpontScrapeConfig(q, 0, <<>>).cfg[1].JobName

\* C14 as stated: two compiled endpoints have the same job name exactly
\* when they have the same namespace, target name and port, a port name and
\* a port number being different ports: for the endpoints of one target,
\* and for an endpoint of the target and one of another target.
C14_JobNameUnique ==
    Succeeded =>
        /\ \A i, j \in DOMAIN ret.res :
               ret.res[i].JobName = ret.res[j].JobName
                   <=> ResolvedPort(Endpoints[i]) = ResolvedPort(Endpoints[j])
        /\ \A i \in DOMAIN ret.res :
               \A q \in JobNamePeers :
                   ret.res[i].JobName = PeerJobName(q)
                       <=> /\ pm.Namespace = q.Namespace
                           /\ pm.Name = q.Name
                           /\ ResolvedPort(Endpoints[i])
                                  = ResolvedPort(q.Spec.Endpoints[1])

-----------------------------------------------------------------------------
(* C15 *)

\* Whether a method that compiles has returned.
Returned == op \in {"ScrapeConfigs", "ValidateCreate", "ValidateUpdate"}

\* C15: whenever ScrapeConfigs, ValidateCreate or ValidateUpdate has
\* returned, with or without an error, the resource is what it was before
\* the first call; a mapping whose `to` was absent still has no `to`, while
\* the rule compiled from it has its `from` as target label.
C15_InputUnchanged ==
    /\ Returned => pm = given /\ ret.pm = given
    /\ Compiled =>
           \A j \in DOMAIN ret.res :
               \A i \in DOMAIN given.Spec.TargetLabels.FromPod :
                   given.Spec.TargetLabels.FromPod[i].To = <<>> =>
                       /\ FromPod[i].To = <<>>
                       /\ MappingRules(j)[i].TargetLabel = FromPod[i].From

\* A mapping without `to` compiled to a rule with a target label.
C15_Witness ==
    /\ Succeeded /\ ret.res # <<>>
    /\ \E i \in DOMAIN FromPod :
           /\ FromPod[i].To = <<>>
           /\ MappingRules(1)[i].TargetLabel = FromPod[i].From
           /\ MappingRules(1)[i].TargetLabel # <<>>

-----------------------------------------------------------------------------
(* C16 *)

\* Whether the last method returned an error of the compilation.
CompileError ==
    /\ Returned /\ ret.err # NoError
    /\ ret.err # PlainError(NoEndpoints)

\* C16: an error of the compilation (from ScrapeConfigs, or handed on by
\* ValidateCreate and ValidateUpdate) carries the index of an endpoint of
\* the target; this endpoint fails to compile, with the error reported;
\* every endpoint before it compiles, so it is the first that fails, and
\* no endpoint after it was compiled.
C16_ErrorIndex ==
    CompileError =>
        /\ ret.err.index \in EndpointIndexes
        /\ ~EndpointCompiles(ret.err.index)
        /\ ret.err.msg = EndpointResult(ret.err.index).err
        /\ \A k \in EndpointIndexes : k < ret.err.index => EndpointCompiles(k)
        /\ ret.calls = ret.err.index + 1

\* The second endpoint of a target failed after the first compiled.
C16_Witness ==
    /\ Failed /\ ret.err.index = 1
    /\ EndpointCompiles(0) /\ ~EndpointCompiles(1)

-----------------------------------------------------------------------------
(* C17 *)

\* The target of the scenario: namespace ns1, name app, selector {app: x},
\* one endpoint with the port name web and the interval 30s.
ScenarioTarget ==
    PodMonitoring(NS1, APP, [k \in {APP} |-> <<"x">>], <<>>,
                  <<ScrapeEndpoint(Port(StringType, 0, WEB), <<>>, D30S, <<>>)>>, <<>>)

\* The six rules of the scenario.
ScenarioRules ==
    <<[Action |-> "keep", SourceLabels |-> <<metaNamespace>>, Regex |-> <<NS1>>,
       Replacement |-> <<>>, TargetLabel |-> <<>>],
      [Action |-> "keep", SourceLabels |-> <<metaPodLabel \o <<"a", "p", "p">>>>,
       Regex |-> <<<<"x">>>>, Replacement |-> <<>>, TargetLabel |-> <<>>],
      [Action |-> "replace", SourceLabels |-> <<metaNamespace>>, Regex |-> <<>>,
       Replacement |-> <<>>,
       TargetLabel |-> <<"n", "a", "m", "e", "s", "p", "a", "c", "e">>],
      [Action |-> "replace", SourceLabels |-> <<>>, Regex |-> <<>>,
       Replacement |-> <<"a", "p", "p">>, TargetLabel |-> <<"j", "o", "b">>],
      [Action |-> "keep", SourceLabels |-> <<metaPortName>>, Regex |-> <<WEB>>,
       Replacement |-> <<>>, TargetLabel |-> <<>>],
      [Action |-> "replace", SourceLabels |-> <<metaPodName, metaPortName>>,
       Regex |-> <<<<"(", ".", "+", ")", ";", "(", ".", "+", ")">>>>,
       Replacement |-> <<"$", "1", ":", "$", "2">>,
       TargetLabel |-> <<"i", "n", "s", "t", "a", "n", "c", "e">>]>>

\* C17: the target of the scenario compiles, to one JobSpec, whose rules
\* are the Keep on the namespace ns1, the Keep on the pod label app with
\* the value x, the Replace of namespace, the Replace setting job to app,
\* the Keep on the container port name web and the Replace building
\* instance from pod name and port name, in this order and no other; its
\* interval and timeout are 30s and its path is /metrics.
C17_Scenario ==
    Compiled /\ pm = ScenarioTarget =>
        /\ ret.err = NoError
        /\ Len(ret.res) = 1
        /\ ret.res[1].RelabelConfigs = ScenarioRules
        /\ ret.res[1].ScrapeInterval = 30000
        /\ ret.res[1].ScrapeTimeout = 30000
        /\ ret.res[1].MetricsPath = <<"/", "m", "e", "t", "r", "i", "c", "s">>

\* The target of the scenario compiled.
C17_Witness ==
    Succeeded /\ pm = ScenarioTarget /\ Len(ret.res[1].RelabelConfigs) = 6

-----------------------------------------------------------------------------
(* C18 *)

\* The rules of the selector expressions of the j-th JobSpec.
ExprRules(j) ==
    SubSeq(ret.res[j].RelabelConfigs, 2 + NumLabels, 1 + NumLabels + NumExprRules)

\* The values separated by `|`.
RECURSIVE Alternation(_)
Alternation(values) ==
    IF Len(values) <= 1 THEN (IF values = <<>> THEN <<>> ELSE values[1])
    ELSE Alternation(SubSeq(values, 1, Len(values) - 1)) \o <<"|">> \o values[Len(values)]

IsRecognized(exp) == exp.Operator \in RecognizedOperators

\* The rule the dispatch gives a recognized expression.
DispatchRule(exp) ==
    [Action |-> IF exp.Operator \in {"In", "Exists"} THEN "keep" ELSE "drop",
     SourceLabels |->
         <<(IF exp.Operator \in {"In", "NotIn"} THEN metaPodLabel
            ELSE metaPodLabelPresent) \o sanitizeLabelName(exp.Key)>>,
     Regex |-> <<IF exp.Operator \in {"In", "NotIn"} THEN Alternation(exp.Values)
                 ELSE <<"t", "r", "u", "e">>>>,
     Replacement |-> <<>>,
     TargetLabel |-> <<>>]

\* The recognized expressions, in declaration order.
RecognizedExpressions == SelectSeq(MatchExpressions, IsRecognized)

\* C18: the rules of the selector expressions are the rules of the
\* recognized expressions, one each and in declaration order: Keep on the
\* pod label with the alternation of the values for In, Drop with the same
\* for NotIn, Keep on the label-present signal matching `true` for Exists,
\* Drop on it for DoesNotExist; an expression with another operator adds
\* no rule and no error, and the rules of the others are as without it.
C18_ExpressionDispatch ==
    /\ Compiled =>
           \A j \in DOMAIN ret.res :
               ExprRules(j) =
                   [i \in DOMAIN RecognizedExpressions |->
                       DispatchRule(RecognizedExpressions[i])]
    /\ Compiled /\ [pm EXCEPT !.Spec.Selector.MatchExpressions = <<>>] = ScenarioTarget
           => ret.err = NoError /\ Len(ret.res) = 1

\* An expression with an unknown operator, followed by a NotIn, compiled.
C18_Witness ==
    /\ Succeeded /\ ret.res # <<>>
    /\ Len(MatchExpressions) = 2
    /\ ~IsRecognized(MatchExpressions[1])
    /\ MatchExpressions[2].Operator = "NotIn"
    /\ Len(MatchExpressions[2].Values) = 2
    /\ ExprRules(1) = <<DispatchRule(MatchExpressions[2])>>

-----------------------------------------------------------------------------
(* C19 *)

\* Whether the rule filters targets by their declared port.
FiltersByPort(r) ==
    /\ r.Action \in {Keep, Drop}
    /\ \E n \in DOMAIN r.SourceLabels : r.SourceLabels[n] \in {metaPortName, metaPortNumber}

\* The two rules of a port name and of a port number.
NamedPortRules(name) ==
    <<[Action |-> "keep", SourceLabels |-> <<metaPortName>>, Regex |-> <<name>>,
       Replacement |-> <<>>, TargetLabel |-> <<>>],
      [Action |-> "replace", SourceLabels |-> <<metaPodName, metaPortName>>,
       Regex |-> <<<<"(", ".", "+", ")", ";", "(", ".", "+", ")">>>>,
       Replacement |-> <<"$", "1", ":", "$", "2">>,
       TargetLabel |-> <<"i", "n", "s", "t", "a", "n", "c", "e">>]>>
NumericPortRules(number) ==
    <<[Action |-> "replace", SourceLabels |-> <<metaPodName>>, Regex |-> <<>>,
       Replacement |-> <<"$", "1", ":">> \o number,
       TargetLabel |-> <<"i", "n", "s", "t", "a", "n", "c", "e">>],
      [Action |-> "replace", SourceLabels |-> <<metaPodIP>>, Regex |-> <<>>,
       Replacement |-> <<"$", "1", ":">> \o number,
       TargetLabel |-> <<"_", "_", "a", "d", "d", "r", "e", "s", "s", "_", "_">>]>>

\* C19: in every JobSpec the port stage is two rules, and these are its
\* only rules on the port: for a port name, the Keep on the container port
\* name and the Replace building instance from pod name and port name; for
\* a port number alone, the Replace setting instance to pod name and number
\* and the Replace setting the address to pod IP and number, and no rule of
\* the JobSpec filters the targets by their port.
C19_PortStage ==
    Succeeded =>
        \A k \in DOMAIN Endpoints :
            /\ Len(ret.res[k].RelabelConfigs)
                   = 1 + NumLabels + NumExprRules + 2 + 2 + Len(FromPod)
            /\ NameSet(Endpoints[k]) =>
                   PortRules(k) = NamedPortRules(Endpoints[k].Port.StrVal)
            /\ ~NameSet(Endpoints[k]) =>
                   /\ PortRules(k) = NumericPortRules(Itoa(Endpoints[k].Port.IntVal))
                   /\ \A n \in DOMAIN ret.res[k].RelabelConfigs :
                          ~FiltersByPort(ret.res[k].RelabelConfigs[n])

\* A target with the port number 8080 and a port name compiled.
C19_Witness ==
    /\ Succeeded /\ Len(Endpoints) = 2
    /\ ~NameSet(Endpoints[1]) /\ NameSet(Endpoints[2])
    /\ PortRules(1) = NumericPortRules(<<"8", "0", "8", "0">>)
    /\ PortRules(2) = NamedPortRules(WEB)

-----------------------------------------------------------------------------
(* C20 *)

\* The duration error of the endpoint, "" when its durations are valid.
DurationError(ep) ==
    IF ~ParseDuration(ep.Interval).ok THEN InvalidInterval
    ELSE IF ep.Timeout = <<>> THEN ""
    ELSE IF ~ParseDuration(ep.Timeout).ok THEN InvalidTimeout
    ELSE IF ParseDuration(ep.Timeout).d > ParseDuration(ep.Interval).d
    THEN TimeoutExceedsInterval
    ELSE ""

\* C20 as stated: a target with an endpoint whose interval or timeout does
\* not parse, or whose timeout exceeds its interval, fails to compile, and
\* the error reported for this endpoint is its duration error, whatever its
\* port and the label mappings of the target are.
C20_DurationsIndependent ==
    Compiled =>
        \A k \in DOMAIN Endpoints :
            DurationError(Endpoints[k]) # "" =>
                /\ ret.err # NoError
                /\ ret.err.index <= k - 1
                /\ ret.err.index = k - 1 => ret.err.msg = DurationError(Endpoints[k])

\* C20 amended: a target with such an endpoint fails to compile; the error
\* reported for this endpoint is its duration error when its port resolves
\* and the label mappings are accepted, the error of the port when the port
\* does not resolve, and ReservedLabelCollision when the port resolves and
\* a label mapping is rejected.
C20_DurationsLast ==
    Compiled =>
        \A k \in DOMAIN Endpoints :
            DurationError(Endpoints[k]) # "" =>
                /\ ret.err # NoError
                /\ ret.err.index <= k - 1
                /\ ret.err.index = k - 1 =>
                       ret.err.msg =
                           IF ~NameSet(Endpoints[k]) /\ ~NumberSet(Endpoints[k])
                           THEN MissingPort
                           ELSE IF NameSet(Endpoints[k])
                                   /\ ~NewRegexp(Endpoints[k].Port.StrVal).ok
                           THEN InvalidPortName
                           ELSE IF ~labelMappingRelabelConfigs(FromPod, metaPodLabel).ok
                           THEN ReservedLabelCollision
                           ELSE DurationError(Endpoints[k])

\* An endpoint with a timeout above its interval was rejected for a label
\* mapping of the target.
C20_Witness ==
    /\ Failed /\ ret.err.index = 0
    /\ DurationError(Endpoints[1]) = TimeoutExceedsInterval
    /\ ret.err.msg = ReservedLabelCollision

=============================================================================
